---------------------------- MODULE Spec2Model ----------------------------
(***************************************************************************)
(* Model of mchat (src/src/lib.rs): the Packet codec (varint, string,      *)
(* slice, protocol id), the framing layer of Client (send_packet,          *)
(* read_packet, block_until_packet_id) and the handshake session           *)
(* (invalidate_handshake, status, login).                                  *)
(*                                                                         *)
(* Conventions.  A byte is a number in 0..255.  A Vec<u8> is a sequence of *)
(* bytes; Rust indices are 0-based, so buffer[cursor] of the source is     *)
(* buffer[cursor + 1] here.  Option<u8> is a sequence of length 0 (None)   *)
(* or 1 (Some).  An i32 is a number in -2^31 .. 2^31-1.  A call ends "Ok", *)
(* "Err" (an error value is returned) or "Panic" (the thread unwinds).     *)
(***************************************************************************)
EXTENDS Integers, Sequences, FiniteSets

VARIABLES
    (* codec harness: one Packet and the calls made on it *)
    pkt,                \* the Packet under test
    hist,               \* the write call made on pkt, if any
    last,               \* the latest call made on pkt
    (* Client *)
    handshake_performed,\* Client.handshake_performed
    hostname,           \* Client.hostname (its bytes)
    port,               \* Client.port (u16)
    reader,             \* Client.reader: the stream its BufReader wraps
    writer,             \* Client.writer: the stream its BufWriter wraps
    wbuf,               \* bytes held in the BufWriter, not yet on the stream
    (* the network *)
    wire,               \* wire[s]: the bytes the peer of stream s was sent
    inbound,            \* inbound[s]: the chunks the peer of stream s sends
    rpos,               \* rpos[s]: how many bytes of inbound[s] were read
    broken,             \* broken[s]: writes on stream s fail from now on
    dials,              \* streams dialed so far (streams are 1..dials)
    (* the call in progress and the calls made *)
    pc,                 \* position inside the Client call in progress
    call,               \* locals of the call in progress
    log                 \* the Client calls completed, oldest first

codecVars == <<pkt, hist, last>>
clientVars == <<handshake_performed, hostname, port, reader, writer, wbuf>>
netVars == <<wire, inbound, rpos, broken, dials>>
callVars == <<pc, call, log>>
vars == <<pkt, hist, last, handshake_performed, hostname, port, reader, writer, wbuf,
          wire, inbound, rpos, broken, dials, pc, call, log>>

-----------------------------------------------------------------------------
(* Bounds of the model *)

\* how far around each 7-bit group boundary the varint inputs range
Spread == 2
\* longest byte sequence drawn from the buffer alphabet
MaxBufLen == 4
\* longest string (in bytes) drawn from the string alphabet
MaxStrLen == 3
\* largest amount passed to read_slice by the codec harness
MaxSlice == 2
\* chunks (frames, malformed prefixes) the peer sends on one stream
MaxChunks == 3
\* send_packet calls made by the outbound framing harness
MaxSends == 2
\* status() and login() calls made on one Client
MaxCalls == 3
\* the socket writes of one call before which the connection may be reset
MaxResetAt == 2

-----------------------------------------------------------------------------
(* Integer widths *)

Byte == 0 .. 255
I32_MAX == 2147483647
I32_MIN == -I32_MAX - 1
Pow2_28 == 2 ^ 28
Pow2_24 == 2 ^ 24

VARINT_SEGMENT_BITS == 127
VARINT_CONTINUE_BIT == 128

\* value & VARINT_SEGMENT_BITS, for an i32 or a byte (two's complement)
SegmentBits(value) == value % (VARINT_SEGMENT_BITS + 1)

\* mutant: the last group holds six bits only ((value & !0x3F) == 0)
NoHigherBits_Six(value) == value >= 0 /\ value <= 63

\* (value & !VARINT_SEGMENT_BITS) == 0 for an i32
NoHigherBits(value) == value >= 0 /\ value <= VARINT_SEGMENT_BITS

\* (byte as i32 & VARINT_CONTINUE_BIT) == 0 for a byte
ContinueBitClear(byte) == (byte \div VARINT_CONTINUE_BIT) % 2 = 0

\* mutant: the arithmetic shift value >> 7 of the i32 (the sign is kept)
ShrU32_7_Arithmetic(value) == value \div 128

\* ((value as u32) >> 7) as i32: the logical shift of the 32-bit pattern.
\* For value < 0 the pattern is value + 2^32 = (value + 2^31) + 128 * 2^24.
ShrU32_7(value) ==
    IF value >= 0 THEN value \div 128
    ELSE ((value + I32_MAX) + 1) \div 128 + Pow2_24

\* value | (segment << bit_position) as i32, where value < 2^bit_position and
\* 0 <= segment <= 127.  Bits shifted past bit 31 are lost; bit 31 is the sign.
OrShl(value, segment, bit_position) ==
    IF bit_position < 28 THEN value + segment * (2 ^ bit_position)
    ELSE LET low == segment % 16
         IN  IF low < 8 THEN value + low * Pow2_28
             ELSE value + (low - 16) * Pow2_28

\* n as i32 for a usize 0 <= n < 2^32: the low 32 bits, bit 31 the sign
AsI32(n) == IF n <= I32_MAX THEN n ELSE ((n - I32_MAX) - 1) + I32_MIN

-----------------------------------------------------------------------------
(* Packet *)

None == << >>
Some(b) == << b >>

\* mutant: a new Packet already carries the id 0
PacketNew_WithId == [buffer |-> << >>, cursor |-> 0, protocol_id |-> Some(0)]

\* Packet::new
PacketNew == [buffer |-> << >>, cursor |-> 0, protocol_id |-> None]

\* Packet::from_bytes
PacketFromBytes(bytes) == [buffer |-> bytes, cursor |-> 0, protocol_id |-> None]

\* Packet::with_size
PacketWithSize(size) ==
    [buffer |-> [i \in 1 .. size |-> 0], cursor |-> 0, protocol_id |-> None]

\* what a Packet method returns: how it ended, its value, the Packet after
Ret(status, value, packet) == [status |-> status, value |-> value, packet |-> packet]

\* Packet::write_varint, the loop from iteration `iterations` on
RECURSIVE WriteVarintLoop(_, _, _)
WriteVarintLoop(p, value, iterations) ==
    IF iterations > 5 THEN Ret("Err", << >>, p)
    ELSE IF NoHigherBits(value)
         THEN Ret("Ok", << >>, [p EXCEPT !.buffer = Append(@, value % 256)])
         ELSE WriteVarintLoop(
                  [p EXCEPT !.buffer =
                      Append(@, SegmentBits(value) + VARINT_CONTINUE_BIT)],
                  ShrU32_7(value), iterations + 1)

\* Packet::write_varint
WriteVarint(p, value) == WriteVarintLoop(p, value, 1)

\* mutant: the limit is reached one group early (5-byte varints are refused)
VarintTooLarge_Early(bit_position) == bit_position >= 28

\* mutant: the limit of a 64-bit varint (10 groups) is used
VarintTooLarge_Wide(bit_position) == bit_position >= 64

\* Packet::read_varint: whether the loop gives up after this continuation byte
VarintTooLarge(bit_position) == bit_position >= 32

\* Packet::read_varint, the loop from bit position `bit_position` on
RECURSIVE ReadVarintLoop(_, _, _)
ReadVarintLoop(p, value, bit_position) ==
    IF p.cursor >= Len(p.buffer) THEN Ret("Err", << >>, p)
    ELSE LET current_byte == p.buffer[p.cursor + 1]
             q == [p EXCEPT !.cursor = @ + 1]
             v == OrShl(value, SegmentBits(current_byte), bit_position)
         IN  IF ContinueBitClear(current_byte) THEN Ret("Ok", v, q)
             ELSE IF VarintTooLarge(bit_position + 7) THEN Ret("Err", << >>, q)
             ELSE ReadVarintLoop(q, v, bit_position + 7)

\* Packet::read_varint
ReadVarint(p) == ReadVarintLoop(p, 0, 0)

\* the bytes buffer[from .. to) of the source (0-based, end exclusive)
Slice(buffer, from, to) == SubSeq(buffer, from + 1, to)

\* UTF-8 (Unicode table 3-7): the length of the sequence a byte leads, 0 for a
\* byte that leads none (a continuation byte, C0, C1, F5..FF)
Utf8Width(b) ==
    IF b <= 127 THEN 1
    ELSE IF b >= 194 /\ b <= 223 THEN 2
    ELSE IF b >= 224 /\ b <= 239 THEN 3
    ELSE IF b >= 240 /\ b <= 244 THEN 4
    ELSE 0

Utf8Continuation(b) == b >= 128 /\ b <= 191

\* the second byte a lead byte admits: no overlong forms, no surrogates,
\* nothing above U+10FFFF
Utf8Second(lead, b) ==
    IF lead = 224 THEN b >= 160 /\ b <= 191
    ELSE IF lead = 237 THEN b >= 128 /\ b <= 159
    ELSE IF lead = 240 THEN b >= 144 /\ b <= 191
    ELSE IF lead = 244 THEN b >= 128 /\ b <= 143
    ELSE Utf8Continuation(b)

\* String::from_utf8(bytes).is_ok(): every byte that is no continuation byte
\* leads a complete well-formed sequence, and every continuation byte lies in
\* the sequence of the nearest lead byte before it
IsUtf8(bytes) ==
    \A i \in 1 .. Len(bytes) :
        IF ~Utf8Continuation(bytes[i])
        THEN LET w == Utf8Width(bytes[i])
             IN  /\ w > 0
                 /\ i + w - 1 <= Len(bytes)
                 /\ w >= 2 => Utf8Second(bytes[i], bytes[i + 1])
                 /\ \A j \in i + 2 .. i + w - 1 : Utf8Continuation(bytes[j])
        ELSE \E k \in 1 .. i - 1 :
                 /\ i - k < Utf8Width(bytes[k])
                 /\ \A m \in k + 1 .. i : Utf8Continuation(bytes[m])

\* mutant: the length counts characters (value.chars().count()), not bytes
StringLengthPrefix_Chars(value) ==
    AsI32(Cardinality({i \in 1 .. Len(value) : ~Utf8Continuation(value[i])}))

\* Packet::write_string: the length written before the bytes
StringLengthPrefix(value) == AsI32(Len(value))

\* Packet::write_string (value: the bytes of a &str)
WriteString(p, value) ==
    LET r == WriteVarint(p, StringLengthPrefix(value))
    IN  IF r.status # "Ok" THEN r
        ELSE Ret("Ok", << >>, [r.packet EXCEPT !.buffer = @ \o value])

\* Packet::read_string.  A negative length is a huge usize: cursor + length
\* overflows or the slice ends past the buffer, and indexing panics.
ReadString(p) ==
    LET r == ReadVarint(p)
        q == r.packet
        length == r.value
    IN  IF r.status # "Ok" THEN r
        ELSE IF length < 0 \/ length > Len(q.buffer) - q.cursor
             THEN Ret("Panic", << >>, q)
        ELSE LET bytes == Slice(q.buffer, q.cursor, q.cursor + length)
             IN  IF ~IsUtf8(bytes) THEN Ret("Err", << >>, q)
                 ELSE Ret("Ok", bytes, [q EXCEPT !.cursor = @ + length])

\* mutant: an exhausted buffer is no error, the id just stays unset
ReadProtocolId_Lenient(p) ==
    IF p.cursor >= Len(p.buffer) THEN Ret("Ok", << >>, p)
    ELSE LET id == p.buffer[p.cursor + 1]
         IN  Ret("Ok", id, [p EXCEPT !.protocol_id = Some(id), !.cursor = @ + 1])

\* Packet::read_protocol_id
ReadProtocolId(p) ==
    IF p.cursor >= Len(p.buffer) THEN Ret("Err", << >>, p)
    ELSE LET id == p.buffer[p.cursor + 1]
         IN  Ret("Ok", id, [p EXCEPT !.protocol_id = Some(id), !.cursor = @ + 1])

\* Packet::get_protocol_id
GetProtocolId(p) == p.protocol_id

\* Packet::write_slice
WriteSlice(p, slice) == [p EXCEPT !.buffer = @ \o slice]

\* Packet::read_slice.  buffer.len() - 1 underflows on an empty buffer: with
\* overflow checks (debug profile) that panics, without them (release) it
\* wraps to usize::MAX and the guard passes.
ReadSlice(p, amount, overflow_checks) ==
    IF Len(p.buffer) = 0 /\ overflow_checks THEN Ret("Panic", << >>, p)
    ELSE IF Len(p.buffer) > 0 /\ p.cursor + amount > Len(p.buffer) - 1
         THEN Ret("Err", << >>, p)
    ELSE IF p.cursor + amount > Len(p.buffer) THEN Ret("Panic", << >>, p)
    ELSE Ret("Ok", Slice(p.buffer, p.cursor, p.cursor + amount),
             [p EXCEPT !.cursor = @ + amount])


-----------------------------------------------------------------------------
(* Client: framing.  A stream is the byte sequence `inb` the peer sends and  *)
(* the position `pos` up to which it was read; the peer closes the stream    *)
(* after its last byte, so a read past the end fails (UnexpectedEof).        *)

\* what read_packet and block_until_packet_id return: how the call ended,
\* the kind of error ("io": the stream failed, "framing": a decode failed),
\* the Option<Packet> (None, or Some(packet)), the stream position after
Got(status, err, value, pos) ==
    [status |-> status, err |-> err, value |-> value, pos |-> pos]

\* mutant: gives up one byte early (a five-byte prefix is refused)
PrefixTooLong_Early(len) == len > 4

\* Client::read_packet: the guard that gives up on the length prefix
PrefixTooLong(len) == len > 5

\* Client::read_packet, the loop that reads the length prefix byte by byte
\* into response.buffer: ends "eof" (read_exact failed), "none" (gave up) or
\* "break" (a byte with the continuation bit clear was read)
RECURSIVE ReadLengthPrefix(_, _, _)
ReadLengthPrefix(inb, pos, buffer) ==
    IF pos >= Len(inb) THEN [kind |-> "eof", buffer |-> buffer, pos |-> pos]
    ELSE LET byte == inb[pos + 1]
             extended == Append(buffer, byte)
         IN  IF PrefixTooLong(Len(extended))
             THEN [kind |-> "none", buffer |-> extended, pos |-> pos + 1]
             ELSE IF ContinueBitClear(byte)
             THEN [kind |-> "break", buffer |-> extended, pos |-> pos + 1]
             ELSE ReadLengthPrefix(inb, pos + 1, extended)

\* mutant: read_exact fills the whole buffer, not buffer[cursor..]
PayloadBytesWanted_Whole(len, cursor, payload_length) == len + payload_length

\* Client::read_packet: the number of bytes read_exact is asked for after
\* the buffer was resized, buffer[cursor..] of a buffer of len + payload_length
PayloadBytesWanted(len, cursor, payload_length) == (len + payload_length) - cursor

\* Client::read_packet.  A negative payload_length is a huge usize: the
\* resize overflows the capacity, or (wrapped, without overflow checks) leaves
\* the buffer shorter than the cursor; either way the call panics.
ReadPacket(inb, pos) ==
    LET pre == ReadLengthPrefix(inb, pos, << >>)
    IN  IF pre.kind = "eof" THEN Got("Err", "io", None, pre.pos)
        ELSE IF pre.kind = "none" THEN Got("Ok", "", None, pre.pos)
        ELSE
        LET len == ReadVarint([PacketNew EXCEPT !.buffer = pre.buffer])
            response == len.packet
            payload_length == len.value
        IN  IF len.status # "Ok" THEN Got("Err", "framing", None, pre.pos)
            ELSE IF payload_length < 0 THEN Got("Panic", "", None, pre.pos)
            ELSE
            LET wanted == PayloadBytesWanted(Len(response.buffer), response.cursor,
                                             payload_length)
            IN  IF wanted > Len(inb) - pre.pos
                THEN Got("Err", "io", None, Len(inb))
                ELSE
                LET filled == [response EXCEPT !.buffer =
                                   @ \o Slice(inb, pre.pos, pre.pos + wanted)]
                    id == ReadProtocolId(filled)
                IN  IF id.status # "Ok"
                    THEN Got("Err", "framing", None, pre.pos + wanted)
                    ELSE Got("Ok", "", Some(id.packet), pre.pos + wanted)

\* mutant: any id from the wanted one up is accepted
IsWanted_AtLeast(id, packet_id) == id >= packet_id

\* Client::block_until_packet_id: whether the packet read is the one waited for
IsWanted(id, packet_id) == id = packet_id

\* Client::block_until_packet_id
RECURSIVE BlockUntilPacketId(_, _, _)
BlockUntilPacketId(inb, pos, packet_id) ==
    LET r == ReadPacket(inb, pos)
    IN  IF r.status # "Ok" THEN r
        ELSE IF r.value = None THEN BlockUntilPacketId(inb, r.pos, packet_id)
        ELSE LET id == GetProtocolId(r.value[1])
             IN  IF id = None THEN BlockUntilPacketId(inb, r.pos, packet_id)
                 ELSE IF IsWanted(id[1], packet_id) THEN r
                 ELSE BlockUntilPacketId(inb, r.pos, packet_id)

-----------------------------------------------------------------------------
(* Client: the write half.  w = [buf, out, broken, good]: the bytes the      *)
(* BufWriter holds, the bytes the stream has carried to the peer, whether   *)
(* the stream fails every write from now on (the connection was reset), and *)
(* how many more socket writes the connection takes before it is reset      *)
(* (Forever: it is not reset).                                              *)

\* capacity of BufWriter::new (std's DEFAULT_BUF_SIZE, 8 KiB)
DEFAULT_BUF_SIZE == 8192

\* the connection is not reset
Forever == -1

\* io::Result<usize> of a write, or io::Result<()> (n = 0), with the writer after
Wrote(status, n, w) == [status |-> status, n |-> n, w |-> w]

\* the socket fails this write: the connection is, or has just been, reset
Refuses(w) == w.broken \/ w.good = 0

\* TcpStream::write(bytes): the socket takes `accepted` bytes (1 .. len, all
\* of them unless the call is cut short) and reports the count
StreamWrite(w, bytes, accepted) ==
    IF Refuses(w) THEN Wrote("Err", 0, [w EXCEPT !.broken = TRUE])
    ELSE LET n == IF accepted < Len(bytes) THEN accepted ELSE Len(bytes)
         IN  Wrote("Ok", n, [w EXCEPT !.out = @ \o SubSeq(bytes, 1, n),
                                      !.good = IF @ > 0 THEN @ - 1 ELSE @])

\* BufWriter::flush_buf: the loop that hands the held bytes to the socket
\* until none is left, `accepted` bytes per write, in closed form.  The
\* bytes written before a failing write are dropped from the buffer.
FlushBuf(w, accepted) ==
    IF w.buf = << >> THEN Wrote("Ok", 0, w)
    ELSE LET need == (Len(w.buf) + accepted - 1) \div accepted
             can == IF w.broken THEN 0
                    ELSE IF w.good = Forever \/ w.good >= need THEN need
                    ELSE w.good
             written == IF can = need THEN Len(w.buf) ELSE can * accepted
             left == IF w.good = Forever THEN Forever ELSE w.good - can
         IN  IF can = need
             THEN Wrote("Ok", 0, [w EXCEPT !.out = @ \o w.buf, !.buf = << >>,
                                           !.good = left])
             ELSE Wrote("Err", 0,
                        [w EXCEPT !.out = @ \o SubSeq(w.buf, 1, written),
                                  !.buf = SubSeq(w.buf, written + 1, Len(w.buf)),
                                  !.broken = TRUE,
                                  !.good = left])

\* BufWriter::write: bytes that fit are held; otherwise the held bytes are
\* flushed first and bytes of at least the capacity go straight to the stream
BufWriterWrite(w, bytes, accepted) ==
    LET spare == DEFAULT_BUF_SIZE - Len(w.buf)
    IN  IF Len(bytes) < spare
        THEN Wrote("Ok", Len(bytes), [w EXCEPT !.buf = @ \o bytes])
        ELSE LET f == IF Len(bytes) > spare THEN FlushBuf(w, accepted)
                      ELSE Wrote("Ok", 0, w)
             IN  IF f.status # "Ok" THEN f
                 ELSE IF Len(bytes) >= DEFAULT_BUF_SIZE
                      THEN StreamWrite(f.w, bytes, accepted)
                      ELSE Wrote("Ok", Len(bytes), [f.w EXCEPT !.buf = @ \o bytes])

\* BufWriter::flush (TcpStream::flush does nothing)
BufWriterFlush(w, accepted) == FlushBuf(w, accepted)

\* Client::send_packet: the length written before the payload
FrameLength(packet) == AsI32(Len(packet.buffer))

\* Client::send_packet.  The counts returned by the two writes are dropped.
SendPacket(w, packet, accepted) ==
    LET length == WriteVarint(PacketNew, FrameLength(packet))
    IN  IF length.status # "Ok" THEN Wrote("Err", 0, w)
        ELSE LET w1 == BufWriterWrite(w, length.packet.buffer, accepted)
             IN  IF w1.status # "Ok" THEN Wrote("Err", 0, w1.w)
                 ELSE LET w2 == BufWriterWrite(w1.w, packet.buffer, accepted)
                      IN  IF w2.status # "Ok" THEN Wrote("Err", 0, w2.w)
                          ELSE BufWriterFlush(w2.w, accepted)

\* "salut baietii"
SalutBaietii == <<115, 97, 108, 117, 116, 32, 98, 97, 105, 101, 116, 105, 105>>

\* u64::to_be_bytes of the milliseconds hi * 2^24 + lo (hi < 2^31, lo < 2^24)
ToBeBytes64(hi, lo) ==
    <<0, (hi \div Pow2_24) % 256, (hi \div 65536) % 256, (hi \div 256) % 256,
      hi % 256, (lo \div 65536) % 256, (lo \div 256) % 256, lo % 256>>

\* Client::send_chat_message: the Packet it builds at the clock reading
\* `clock` (milliseconds since the epoch, in two parts)
ChatMessagePacket(clock) ==
    LET p1 == WriteVarint(PacketNew, 4).packet
        p2 == WriteString(p1, SalutBaietii).packet
        p3 == WriteSlice(p2, ToBeBytes64(clock.hi, clock.lo))
        p4 == WriteSlice(p3, [i \in 1 .. 8 |-> 0])
        p5 == WriteSlice(p4, <<0>>)
    IN  WriteSlice(p5, <<0>>)

\* Client::send_chat_message.  duration_since(UNIX_EPOCH) fails for a clock
\* set before the epoch, and then nothing is sent.
SendChatMessage(w, clock, accepted) ==
    IF clock.before_epoch THEN Wrote("Err", 0, w)
    ELSE SendPacket(w, ChatMessagePacket(clock), accepted)

-----------------------------------------------------------------------------
(* Client: the handshake session *)

\* "localhost" and "extremq"
Localhost == <<108, 111, 99, 97, 108, 104, 111, 115, 116>>
Extremq == <<101, 120, 116, 114, 101, 109, 113>>

\* mutant: the port in little-endian order (u16::to_le_bytes)
ToBeBytes16_LittleEndian(n) == <<n % 256, (n \div 256) % 256>>

\* u16::to_be_bytes
ToBeBytes16(n) == <<(n \div 256) % 256, n % 256>>

\* next-state varint of the handshake: 1 in status(), 2 in login()
NextState(fn) == IF fn = "login" THEN 2 ELSE 1

\* protocol version written into the handshake
PROTOCOL_VERSION == 759

\* the handshake Packet built by status() and login()
HandshakePacket(host, p, next_state) ==
    LET p1 == WriteVarint(PacketNew, 0).packet
        p2 == WriteVarint(p1, PROTOCOL_VERSION).packet
        p3 == WriteString(p2, host).packet
        p4 == WriteSlice(p3, ToBeBytes16(p))
    IN  WriteVarint(p4, next_state).packet

\* the login-start Packet built by login()
LoginStartPacket ==
    LET p1 == WriteVarint(PacketNew, 0).packet
        p2 == WriteString(p1, Extremq).packet
    IN  WriteSlice(p2, <<0>>)

\* the status-request Packet built by status()
StatusRequestPacket == WriteVarint(PacketNew, 0).packet

\* a login() that sends the status request instead of login start
RequestPacket_Status(fn) == StatusRequestPacket

\* the second Packet a call sends
RequestPacket(fn) == IF fn = "login" THEN LoginStartPacket ELSE StatusRequestPacket

\* the id a call waits for: 0x02 in login(), 0x00 in status()
WaitedId(fn) == IF fn = "login" THEN 2 ELSE 0

\* an invalidate_handshake that never dials
NeedsRedial_Never(performed) == FALSE

\* Client::invalidate_handshake: whether a new stream is dialed
NeedsRedial(performed) == performed

\* mutant: the flag is cleared when the stream is replaced
RedialedFlag_Cleared == FALSE

\* Client::invalidate_handshake: the flag it stores after redialing
RedialedFlag == TRUE

\* login(): read_slice(16) then read_string() on the response; the value is
\* <<uuid, username>>
DecodeLogin(response, overflow_checks) ==
    LET uuid == ReadSlice(response, 16, overflow_checks)
    IN  IF uuid.status # "Ok" THEN uuid
        ELSE LET name == ReadString(uuid.packet)
             IN  IF name.status # "Ok" THEN name
                 ELSE Ret("Ok", <<uuid.value, name.value>>, name.packet)

\* status(): read_string() on the response
DecodeStatus(response) == ReadString(response)

-----------------------------------------------------------------------------
(* Codec harness: a Packet is constructed (Packet::new or from_bytes), one  *)
(* write method is applied to a Packet made by Packet::new, and then the    *)
(* read methods are applied any number of times.                            *)

\* all sequences over S of length 0 .. n
SeqsUpTo(S, n) == UNION {[1 .. k -> S] : k \in 0 .. n}

\* n copies of byte b
Fill(b, n) == [i \in 1 .. n |-> b]

\* i32 inputs: around every 7-bit group boundary, both ends of the range,
\* and the numbers the source writes (759, a port, 300)
VarintInputs ==
    {v \in UNION {(2 ^ k - Spread) .. (2 ^ k + Spread) : k \in {0, 7, 14, 21, 28}} :
        TRUE}
    \cup {I32_MAX - d : d \in 0 .. Spread}
    \cup {I32_MIN + d : d \in 0 .. Spread}
    \cup {-d : d \in 1 .. Spread}
    \cup {300, 759, 25565}

\* bytes of 'a', of U+00E9 (C3 A9) and of U+20AC (E2 82 AC)
StrAlphabet == {97, 195, 169, 226, 130, 172}

\* &str inputs: every well-formed string over the alphabet, the source's
\* literals and strings whose length needs a two-byte varint
StringInputs ==
    {s \in SeqsUpTo(StrAlphabet, MaxStrLen) : IsUtf8(s)}
    \cup {Localhost, Extremq}
    \cup {Fill(97, n) : n \in {127, 128}}

\* bytes a received buffer is drawn from: small values, continuation bytes
BufAlphabet == {1, 2, 128, 255}

\* received buffers: all short ones, and runs of continuation bytes around
\* the five-byte limit of a varint
BufferInputs ==
    SeqsUpTo(BufAlphabet, MaxBufLen)
    \cup {Fill(c, k) \o t : c \in {128, 255}, k \in 4 .. 6,
                            t \in {<< >>, <<1>>, <<8>>, <<15>>, <<127, 1>>}}

SliceAmounts == 0 .. MaxSlice

NoCall ==
    [op |-> "none", arg |-> << >>, before |-> PacketNew, status |-> "Ok", value |-> << >>]
Call(op, arg, before, r) ==
    [op |-> op, arg |-> arg, before |-> before, status |-> r.status, value |-> r.value]

\* the variables a harness does not use
CodecIdle == pkt = PacketNew /\ hist = << >> /\ last = NoCall
ClientIdle ==
    /\ handshake_performed = FALSE
    /\ hostname = << >>
    /\ port = 0
    /\ reader = 0
    /\ writer = 0
    /\ wbuf = << >>
NetIdle ==
    /\ wire = << >>
    /\ inbound = << >>
    /\ rpos = << >>
    /\ broken = << >>
    /\ dials = 0
CallIdle == pc = "idle" /\ call = << >> /\ log = << >>

InitCodec ==
    /\ ClientIdle /\ NetIdle /\ CallIdle
    /\ pkt \in {PacketNew} \cup {PacketFromBytes(b) : b \in BufferInputs}
    /\ hist = << >>
    /\ last = NoCall

\* a panic unwinds the thread: nothing is called on the Packet afterwards
Alive == last.status # "Panic"

\* a write method is called on a Packet just made by Packet::new
Writable == Alive /\ hist = << >> /\ last.op = "none" /\ pkt = PacketNew

ApplyWrite(c, r) ==
    /\ UNCHANGED <<clientVars, netVars, callVars>>
    /\ pkt' = r.packet
    /\ hist' = Append(hist, c)
    /\ last' = c

ApplyRead(c, r) ==
    /\ UNCHANGED <<clientVars, netVars, callVars>>
    /\ pkt' = r.packet
    /\ last' = c
    /\ UNCHANGED hist

DoWriteVarint ==
    /\ Writable
    /\ \E v \in VarintInputs :
           LET r == WriteVarint(pkt, v)
           IN  ApplyWrite(Call("write_varint", v, pkt, r), r)

DoWriteString ==
    /\ Writable
    /\ \E s \in StringInputs :
           LET r == WriteString(pkt, s)
           IN  ApplyWrite(Call("write_string", s, pkt, r), r)

DoReadVarint ==
    /\ Alive
    /\ LET r == ReadVarint(pkt)
       IN  ApplyRead(Call("read_varint", << >>, pkt, r), r)

DoReadString ==
    /\ Alive
    /\ LET r == ReadString(pkt)
       IN  ApplyRead(Call("read_string", << >>, pkt, r), r)

DoReadProtocolId ==
    /\ Alive
    /\ LET r == ReadProtocolId(pkt)
       IN  ApplyRead(Call("read_protocol_id", << >>, pkt, r), r)

DoReadSlice ==
    /\ Alive
    /\ \E amount \in SliceAmounts, overflow_checks \in BOOLEAN :
           LET r == ReadSlice(pkt, amount, overflow_checks)
           IN  ApplyRead(Call("read_slice", amount, pkt, r), r)

NextCodec ==
    \/ DoWriteVarint
    \/ DoWriteString
    \/ DoReadVarint
    \/ DoReadString
    \/ DoReadProtocolId
    \/ DoReadSlice

SpecCodec == InitCodec /\ [][NextCodec]_vars


-----------------------------------------------------------------------------
(* Framing harness, inbound: the peer sends a sequence of chunks, each a    *)
(* well-formed frame or a piece of malformed traffic, and closes; the       *)
(* Client's read_packet and block_until_packet_id are called in any order.  *)

\* a chunk: its length prefix, its payload and what it is
Chunk(kind, prefix, payload) == [kind |-> kind, prefix |-> prefix, payload |-> payload]

ChunkBytes(c) == c.prefix \o c.payload

\* well-formed frames: ids 1, 2, 5 and an id whose varint is two bytes
\* (0x80 0x01); one-byte and five-byte length prefixes
FrameChunks ==
    { Chunk("frame", <<1>>, <<1>>),
      Chunk("frame", <<3>>, <<5, 9, 9>>),
      Chunk("frame", <<2>>, <<2, 7>>),
      Chunk("frame", <<130, 128, 128, 128, 0>>, <<2, 8>>),
      Chunk("frame", <<3>>, <<128, 1, 7>>) }

\* malformed traffic: a frame of declared length 0, a length prefix that
\* does not end within five bytes (the six bytes read_packet consumes), a
\* five-byte prefix with bit 31 set (FF FF FF FF 0F), a frame cut short and
\* a prefix cut short after five continuation bytes
MalformedChunks ==
    { Chunk("empty", <<0>>, << >>),
      Chunk("overlong", <<128, 128, 128, 128, 128, 1>>, << >>),
      Chunk("negative", <<255, 255, 255, 255, 15>>, << >>),
      Chunk("cut", <<3>>, <<1>>),
      Chunk("cut", <<128, 128, 128, 128, 128>>, << >>) }

ChunkInputs == FrameChunks \cup MalformedChunks

\* the ids block_until_packet_id is asked to wait for
PacketIds == {2, 5}

\* the bytes of a sequence of chunks
RECURSIVE StreamBytes(_)
StreamBytes(chunks) ==
    IF chunks = << >> THEN << >>
    ELSE ChunkBytes(Head(chunks)) \o StreamBytes(Tail(chunks))

\* a completed Client call: what was called, the stream read and the position
\* before, how it ended, what it returned, the position after
Done(op, arg, stream, from, r) ==
    [op |-> op, arg |-> arg, stream |-> stream, from |-> from,
     status |-> r.status, err |-> r.err, value |-> r.value, to |-> r.pos]

\* an I/O failure is fatal to the connection and a panic to the thread:
\* nothing more is called after either
Usable ==
    IF log = << >> THEN TRUE
    ELSE LET l == log[Len(log)]
         IN  l.status = "Ok" \/ (l.status = "Err" /\ l.err = "framing")

InitRead ==
    /\ CodecIdle /\ CallIdle
    /\ handshake_performed = FALSE
    /\ hostname = Localhost
    /\ port = 25565
    /\ reader = 1
    /\ writer = 1
    /\ wbuf = << >>
    /\ dials = 1
    /\ wire = << << >> >>
    /\ inbound \in {<<chunks>> : chunks \in SeqsUpTo(ChunkInputs, MaxChunks)}
    /\ rpos = <<0>>
    /\ broken = <<FALSE>>

Received(r, c) ==
    /\ rpos' = [rpos EXCEPT ![reader] = r.pos]
    /\ log' = Append(log, c)
    /\ UNCHANGED <<codecVars, clientVars, wire, inbound, broken, dials, pc, call>>

DoReadPacket ==
    /\ pc = "idle" /\ Usable
    /\ LET r == ReadPacket(StreamBytes(inbound[reader]), rpos[reader])
       IN  Received(r, Done("read_packet", << >>, reader, rpos[reader], r))

DoBlockUntilPacketId ==
    /\ pc = "idle" /\ Usable
    /\ \E packet_id \in PacketIds :
          LET r == BlockUntilPacketId(StreamBytes(inbound[reader]), rpos[reader],
                                      packet_id)
          IN  Received(r, Done("block_until_packet_id", packet_id, reader,
                               rpos[reader], r))

NextRead == DoReadPacket \/ DoBlockUntilPacketId

SpecRead == InitRead /\ [][NextRead]_vars

-----------------------------------------------------------------------------
(* Framing harness, outbound: send_packet is called with Packets built by   *)
(* from_bytes and with_size, and send_chat_message is called; the           *)
(* connection may be reset before any socket write of a call.               *)

\* the write half of the Client
Writer ==
    [buf |-> wbuf, out |-> wire[writer], broken |-> broken[writer], good |-> Forever]

\* the write half when the connection is reset just before the socket write
\* number reset_at of the call (0: it is not reset during the call)
WriterFacing(reset_at) ==
    [Writer EXCEPT !.good = IF reset_at = 0 THEN Forever ELSE reset_at - 1]

\* when the connection may be reset during a call
ResetPoints == 0 .. MaxResetAt

\* the write half after a call left it as w
WriterBecomes(w) ==
    /\ wbuf' = w.buf
    /\ wire' = [wire EXCEPT ![writer] = w.out]
    /\ broken' = [broken EXCEPT ![writer] = w.broken]

\* Packets handed to send_packet: empty, short, with a two-byte length
\* prefix, one byte below the BufWriter's capacity and exactly at it
SendInputs ==
    {[ctor |-> "from_bytes", bytes |-> b, size |-> Len(b)] :
        b \in {<< >>, <<0>>, <<4, 1, 97>>}}
    \cup {[ctor |-> "with_size", bytes |-> << >>, size |-> n] :
             n \in {127, 128, DEFAULT_BUF_SIZE - 1, DEFAULT_BUF_SIZE}}

\* the Packet a constructor call makes
Built(made) ==
    IF made.ctor = "with_size" THEN PacketWithSize(made.size)
    ELSE PacketFromBytes(made.bytes)

\* how many of n bytes one TcpStream::write may take: any count in 1 .. n;
\* the model tries the least, the most and one below the most
AcceptedCounts(n) == {a \in {1, n - 1, n} : a >= 1}

\* a completed send_packet call: how its Packet was made, the stream
\* written, the bytes it had carried before and has carried after
DoneSend(made, stream, from, r) ==
    [op |-> "send_packet", arg |-> made, stream |-> stream, from |-> from,
     status |-> r.status, err |-> IF r.status = "Ok" THEN "" ELSE "io",
     value |-> None, to |-> Len(r.w.out)]

InitSend ==
    /\ CodecIdle /\ CallIdle
    /\ handshake_performed = FALSE
    /\ hostname = Localhost
    /\ port = 25565
    /\ reader = 1
    /\ writer = 1
    /\ wbuf = << >>
    /\ dials = 1
    /\ wire = << << >> >>
    /\ inbound = << << >> >>
    /\ rpos = <<0>>
    /\ broken = <<FALSE>>

DoSendPacket ==
    /\ pc = "idle" /\ Len(log) < MaxSends
    /\ \E made \in SendInputs, reset_at \in ResetPoints :
          \E accepted \in AcceptedCounts(made.size) \cup {1} :
              LET w == WriterFacing(reset_at)
                  r == SendPacket(w, Built(made), accepted)
              IN  /\ WriterBecomes(r.w)
                  /\ log' = Append(log, DoneSend(made, writer, Len(wire[writer]), r))
                  /\ UNCHANGED <<codecVars, handshake_performed, hostname, port,
                                 reader, writer, inbound, rpos, dials, pc, call>>

\* clock readings: before the epoch, the epoch itself, a day in 2026
ClockInputs ==
    {[before_epoch |-> TRUE, hi |-> 0, lo |-> 0],
     [before_epoch |-> FALSE, hi |-> 0, lo |-> 0],
     [before_epoch |-> FALSE, hi |-> 106700, lo |-> 258]}

\* a completed send_chat_message call
DoneChat(clock, stream, from, r) ==
    [op |-> "send_chat_message", arg |-> clock, stream |-> stream, from |-> from,
     status |-> r.status,
     err |-> IF r.status = "Ok" THEN "" ELSE IF clock.before_epoch THEN "clock" ELSE "io",
     value |-> None, to |-> Len(r.w.out)]

DoSendChatMessage ==
    /\ pc = "idle" /\ Len(log) < MaxSends
    /\ \E clock \in ClockInputs, reset_at \in ResetPoints, accepted \in {1, DEFAULT_BUF_SIZE} :
          LET r == SendChatMessage(WriterFacing(reset_at), clock, accepted)
          IN  /\ WriterBecomes(r.w)
              /\ log' = Append(log, DoneChat(clock, writer, Len(wire[writer]), r))
              /\ UNCHANGED <<codecVars, handshake_performed, hostname, port,
                             reader, writer, inbound, rpos, dials, pc, call>>

NextSend == DoSendPacket \/ DoSendChatMessage

SpecSend == InitSend /\ [][NextSend]_vars

-----------------------------------------------------------------------------
(* Session: status() and login() are called on one Client in any order.     *)
(* Each call advances in steps: invalidate_handshake, the handshake frame,  *)
(* the request frame, the wait for the response, its decoding.  The         *)
(* environment decides whether a dial or a try_clone fails, whether the     *)
(* connection is reset before a socket write of a send, how many bytes a    *)
(* socket write takes, and what each dialed peer sends.                     *)

\* frames a server sends: the status response (id 0, a JSON string), login
\* success (id 2, 16 uuid bytes, the username), set-compression (id 3)
StatusResponse == Chunk("frame", <<4>>, <<0, 2, 123, 125>>)
LoginSuccess ==
    Chunk("frame", <<25>>, <<2>> \o [i \in 1 .. 16 |-> i] \o <<7>> \o Extremq)
SetCompression == Chunk("frame", <<2>>, <<3, 0>>)
\* login success cut after three uuid bytes; login success whose username
\* length (9) exceeds the bytes that follow
LoginSuccessShort == Chunk("frame", <<4>>, <<2, 1, 2, 3>>)
LoginSuccessBadName ==
    Chunk("frame", <<20>>, <<2>> \o [i \in 1 .. 16 |-> i] \o <<9, 97, 98>>)
ZeroLength == Chunk("empty", <<0>>, << >>)

\* what the peer of a stream may send before it closes
ServerScripts ==
    { << >>,
      <<StatusResponse>>,
      <<LoginSuccess>>,
      <<SetCompression, LoginSuccess>>,
      <<LoginSuccess, StatusResponse>>,
      <<ZeroLength, StatusResponse>>,
      <<LoginSuccessShort>>,
      <<LoginSuccessBadName>> }

\* a completed status() or login(): the stream it wrote to, how it ended,
\* the response it waited for (an Option<Packet>, as the decoding left it)
\* and the decoded value
Returned(status, err, response, value) ==
    [op |-> call.fn, arg |-> << >>, stream |-> writer, from |-> 0,
     status |-> status, err |-> err, value |-> value, to |-> 0,
     response |-> response]

\* Client::new("localhost", 25565) connected stream 1
Init ==
    /\ CodecIdle /\ CallIdle
    /\ handshake_performed = FALSE
    /\ hostname = Localhost
    /\ port = 25565
    /\ reader = 1
    /\ writer = 1
    /\ wbuf = << >>
    /\ dials = 1
    /\ wire = << << >> >>
    /\ inbound = << << >> >>
    /\ rpos = <<0>>
    /\ broken = <<FALSE>>

\* what the socket does while a frame of the session is sent, as <<the
\* socket write before which the connection is reset (0: none), the bytes a
\* socket write takes>>: the frame is written whole, in one write or byte by
\* byte; nothing of it is written; its first byte is written and no more
SessionSockets ==
    {<<0, DEFAULT_BUF_SIZE>>, <<0, 1>>, <<1, DEFAULT_BUF_SIZE>>, <<2, 1>>}

\* the call returns: it is logged and the Client is idle again
Return(status, err, response, value) ==
    /\ pc' = "idle"
    /\ call' = << >>
    /\ log' = Append(log, Returned(status, err, response, value))

\* a panic ends the process; an Err leaves the Client to its caller
Running == IF log = << >> THEN TRUE ELSE log[Len(log)].status # "Panic"

\* status() or login() is entered
Enter ==
    /\ pc = "idle" /\ Running /\ Len(log) < MaxCalls
    /\ \E fn \in {"status", "login"} :
          /\ pc' = "invalidate"
          /\ call' = [fn |-> fn, response |-> None]
    /\ UNCHANGED <<codecVars, clientVars, netVars, log>>

\* invalidate_handshake: no handshake was performed, nothing happens
InvalidateSkip ==
    /\ pc = "invalidate" /\ ~NeedsRedial(handshake_performed)
    /\ pc' = "handshake"
    /\ UNCHANGED <<codecVars, clientVars, netVars, call, log>>

\* invalidate_handshake: TcpStream::connect fails
InvalidateConnectFails ==
    /\ pc = "invalidate" /\ NeedsRedial(handshake_performed)
    /\ Return("Err", "connect", None, << >>)
    /\ UNCHANGED <<codecVars, clientVars, netVars>>

\* the stream dials + 1 is connected; its peer has sent nothing yet
Dialed ==
    /\ dials' = dials + 1
    /\ inbound' = Append(inbound, << >>)
    /\ rpos' = Append(rpos, 0)

\* invalidate_handshake: connect succeeds, the first try_clone fails
InvalidateReaderCloneFails ==
    /\ pc = "invalidate" /\ NeedsRedial(handshake_performed)
    /\ Dialed
    /\ wire' = Append(wire, << >>)
    /\ broken' = Append(broken, FALSE)
    /\ Return("Err", "clone", None, << >>)
    /\ UNCHANGED <<codecVars, clientVars>>

\* the old BufWriter is dropped: it tries to flush what it holds
DropWriter(new_stream) ==
    LET dropped == FlushBuf(Writer, DEFAULT_BUF_SIZE).w
    IN  /\ wire' = Append([wire EXCEPT ![writer] = dropped.out], << >>)
        /\ broken' = Append(broken, FALSE)
        /\ wbuf' = << >>
        /\ writer' = new_stream

\* invalidate_handshake: the reader is replaced, the second try_clone fails
InvalidateWriterCloneFails ==
    /\ pc = "invalidate" /\ NeedsRedial(handshake_performed)
    /\ Dialed
    /\ reader' = dials + 1
    /\ wire' = Append(wire, << >>)
    /\ broken' = Append(broken, FALSE)
    /\ Return("Err", "clone", None, << >>)
    /\ UNCHANGED <<codecVars, handshake_performed, hostname, port, writer, wbuf>>

\* invalidate_handshake: both halves are replaced, the flag is set
InvalidateRedial ==
    /\ pc = "invalidate" /\ NeedsRedial(handshake_performed)
    /\ Dialed
    /\ reader' = dials + 1
    /\ DropWriter(dials + 1)
    /\ handshake_performed' = RedialedFlag
    /\ pc' = "handshake"
    /\ UNCHANGED <<codecVars, hostname, port, call, log>>

\* the handshake frame is sent; on success the flag is set
SendHandshake ==
    /\ pc = "handshake"
    /\ \E socket \in SessionSockets :
          LET reset_at == socket[1]
              accepted == socket[2]
              packet == HandshakePacket(hostname, port, NextState(call.fn))
              r == SendPacket(WriterFacing(reset_at), packet, accepted)
          IN  /\ WriterBecomes(r.w)
              /\ IF r.status = "Ok"
                 THEN /\ handshake_performed' = TRUE
                      /\ pc' = "request"
                      /\ UNCHANGED <<call, log>>
                 ELSE /\ Return("Err", "io", None, << >>)
                      /\ UNCHANGED handshake_performed
    /\ UNCHANGED <<codecVars, hostname, port, reader, writer, inbound, rpos, dials>>

\* the login-start or status-request frame is sent
SendRequest ==
    /\ pc = "request"
    /\ \E socket \in SessionSockets :
          LET reset_at == socket[1]
              accepted == socket[2]
              packet == RequestPacket(call.fn)
              r == SendPacket(WriterFacing(reset_at), packet, accepted)
          IN  /\ WriterBecomes(r.w)
              /\ IF r.status = "Ok"
                 THEN pc' = "wait" /\ UNCHANGED <<call, log>>
                 ELSE Return("Err", "io", None, << >>)
    /\ UNCHANGED <<codecVars, handshake_performed, hostname, port, reader, writer,
                   inbound, rpos, dials>>

\* block_until_packet_id(0x02) in login(), (0x00) in status()
\* what the peer of stream s sends before it closes: decided when the Client
\* first waits on s, kept from then on
Answers(s) ==
    IF rpos[s] = 0 /\ inbound[s] = << >> THEN ServerScripts ELSE {inbound[s]}

Wait ==
    /\ pc = "wait"
    /\ \E script \in Answers(reader) :
          LET r == BlockUntilPacketId(StreamBytes(script), rpos[reader],
                                      WaitedId(call.fn))
          IN  /\ inbound' = [inbound EXCEPT ![reader] = script]
              /\ rpos' = [rpos EXCEPT ![reader] = r.pos]
              /\ IF r.status = "Ok"
                 THEN /\ pc' = "decode"
                      /\ call' = [call EXCEPT !.response = r.value]
                      /\ UNCHANGED log
                 ELSE Return(r.status, r.err, None, << >>)
    /\ UNCHANGED <<codecVars, clientVars, wire, broken, dials>>

\* the response is decoded and the call returns
Decode ==
    /\ pc = "decode"
    /\ \E overflow_checks \in BOOLEAN :
          LET r == IF call.fn = "login"
                   THEN DecodeLogin(call.response[1], overflow_checks)
                   ELSE DecodeStatus(call.response[1])
          IN  Return(r.status, IF r.status = "Err" THEN "framing" ELSE "",
                     Some(r.packet), r.value)
    /\ UNCHANGED <<codecVars, clientVars, netVars>>

Next ==
    \/ Enter
    \/ InvalidateSkip
    \/ InvalidateConnectFails
    \/ InvalidateReaderCloneFails
    \/ InvalidateWriterCloneFails
    \/ InvalidateRedial
    \/ SendHandshake
    \/ SendRequest
    \/ Wait
    \/ Decode

Spec == Init /\ [][Next]_vars

-----------------------------------------------------------------------------
(* Claims about the codec (checked under SpecCodec) *)

\* the reference encoding of n >= 0: its 7-bit groups, least significant
\* first, bit 0x80 on every byte but the last, no redundant zero group
RECURSIVE RefVarint(_)
RefVarint(n) ==
    IF n < 128 THEN <<n>> ELSE <<(n % 128) + 128>> \o RefVarint(n \div 128)

\* the Packet was made by Packet::new and exactly one `op` was written to it
WroteOnly(op) == Len(hist) = 1 /\ hist[1].op = op

\* the latest call is `op`, made with the cursor at 0
ReadFromStart(op) == last.op = op /\ last.before.cursor = 0

\* C8: for every v in 0 .. 2^31-1, write_varint(v) on an empty Packet
\* succeeds, and a following read_varint from cursor 0 returns exactly v and
\* leaves the cursor at the end of the buffer.
C8_VarintRoundTrip ==
    (WroteOnly("write_varint") /\ hist[1].arg >= 0) =>
        /\ hist[1].status = "Ok"
        /\ ReadFromStart("read_varint") =>
              /\ last.status = "Ok"
              /\ last.value = hist[1].arg
              /\ pkt.cursor = Len(pkt.buffer)

\* C8 witness: 2^31-1 (five bytes) was written and read back.
C8_Witness ==
    /\ WroteOnly("write_varint")
    /\ hist[1].arg = I32_MAX
    /\ ReadFromStart("read_varint")
    /\ last.status = "Ok"
    /\ pkt.cursor = 5

\* the bytes of `p` from its cursor on
Unread(p) == Slice(p.buffer, p.cursor, Len(p.buffer))

\* the first n bytes of `bytes` exist and all have the continuation bit set
ContinuationRun(bytes, n) ==
    Len(bytes) >= n /\ \A i \in 1 .. n : ~ContinueBitClear(bytes[i])

\* C9: read_varint never reads more than 5 bytes nor past the end of the
\* buffer; it returns an error when the five bytes at the cursor all have
\* the continuation bit set, and when the buffer ends before a byte with the
\* continuation bit clear.
C9_ReadVarintBounded ==
    last.op = "read_varint" =>
        /\ pkt.cursor - last.before.cursor <= 5
        /\ pkt.cursor <= Len(pkt.buffer)
        /\ ContinuationRun(Unread(last.before), 5) => last.status = "Err"
        /\ ContinuationRun(Unread(last.before), Len(Unread(last.before)))
              => last.status = "Err"

\* C9 witness: read_varint failed on six continuation-only bytes, having
\* read five of them.
C9_Witness ==
    /\ last.op = "read_varint"
    /\ ContinuationRun(Unread(last.before), 6)
    /\ last.status = "Err"
    /\ pkt.cursor - last.before.cursor = 5

\* C10: write_string(s) on an empty Packet appends varint(byte length of s)
\* followed by the bytes of s, and a following read_string from cursor 0
\* returns exactly s and advances the cursor to the end of the buffer.
C10_StringRoundTrip ==
    WroteOnly("write_string") =>
        /\ hist[1].status = "Ok"
        /\ pkt.buffer = RefVarint(Len(hist[1].arg)) \o hist[1].arg
        /\ ReadFromStart("read_string") =>
              /\ last.status = "Ok"
              /\ last.value = hist[1].arg
              /\ pkt.cursor = Len(pkt.buffer)

\* C10 witness: a string with a multi-byte character was written and read
\* back (U+00E9 then 'a': three bytes, two characters).
C10_Witness ==
    /\ WroteOnly("write_string")
    /\ hist[1].arg = <<195, 169, 97>>
    /\ ReadFromStart("read_string")
    /\ last.status = "Ok"
    /\ pkt.cursor = 4


-----------------------------------------------------------------------------
(* Claims about inbound framing (checked under SpecRead) *)

\* the stream position after the first j chunks
Boundary(chunks, j) == Len(StreamBytes(SubSeq(chunks, 1, j)))

Boundaries(chunks) == {Boundary(chunks, j) : j \in 0 .. Len(chunks)}

\* every chunk is a well-formed frame (length L >= 1, then L payload bytes)
AllFrames(chunks) == \A i \in 1 .. Len(chunks) : chunks[i].kind = "frame"

\* the protocol id of a frame: its first payload byte
FrameId(c) == c.payload[1]

\* `value` is Some(packet) for the frame c: the id is the frame's first
\* payload byte, the unread bytes are the rest of its payload
IsFrame(value, c) ==
    /\ value # None
    /\ GetProtocolId(value[1]) = Some(FrameId(c))
    /\ Unread(value[1]) = Tail(c.payload)

\* the calls of the log made by `op`
CallsOf(op) == {k \in 1 .. Len(log) : log[k].op = op}

\* C1: on a stream of well-formed frames every successful read_packet call
\* consumes exactly one whole frame (prefix and L payload bytes): it starts
\* and ends at frame boundaries, returns that frame with its id set to the
\* first payload byte and buffer[cursor..] the other L-1 payload bytes, and
\* after any number of calls the position is at a frame boundary; when only
\* read_packet was called, the k-th call returns the k-th frame.
C1_ReadPacketWholeFrames ==
    \A s \in 1 .. dials :
        AllFrames(inbound[s]) =>
            /\ rpos[s] \in Boundaries(inbound[s])
            /\ \A k \in CallsOf("read_packet") :
                  (log[k].stream = s /\ log[k].status = "Ok") =>
                      \E j \in 1 .. Len(inbound[s]) :
                          /\ log[k].from = Boundary(inbound[s], j - 1)
                          /\ log[k].to = Boundary(inbound[s], j)
                          /\ IsFrame(log[k].value, inbound[s][j])
                          /\ (\A i \in 1 .. k : log[i].op = "read_packet") => j = k

\* C1 witness: three read_packet calls returned three frames, the third one
\* behind a five-byte length prefix.
C1_Witness ==
    /\ AllFrames(inbound[1])
    /\ Len(inbound[1]) = 3
    /\ Len(inbound[1][3].prefix) = 5
    /\ Len(log) = 3
    /\ \A k \in 1 .. 3 : log[k].op = "read_packet" /\ log[k].status = "Ok"
    /\ rpos[1] = Boundary(inbound[1], 3)

\* the first chunk after chunk j0 that satisfies Decides, 0 if there is none
FirstAfter(chunks, j0, Decides(_)) ==
    LET found == {j \in j0 + 1 .. Len(chunks) : Decides(chunks[j])}
    IN  IF found = {} THEN 0 ELSE CHOOSE j \in found : \A i \in found : j <= i

\* C3: on a stream of well-formed frames block_until_packet_id(id) returns
\* the first frame, in stream order, whose protocol id equals id: the frames
\* before it are consumed, nothing after it is, and the packet returned has
\* the id asked for.
C3_BlockUntilFirstMatch ==
    \A k \in CallsOf("block_until_packet_id") :
        LET chunks == inbound[log[k].stream]
            Matches(c) == FrameId(c) = log[k].arg
        IN  AllFrames(chunks) =>
                \E j0 \in 0 .. Len(chunks) :
                    /\ log[k].from = Boundary(chunks, j0)
                    /\ LET j == FirstAfter(chunks, j0, Matches)
                       IN  IF j = 0 THEN log[k].status = "Err"
                           ELSE /\ log[k].status = "Ok"
                                /\ IsFrame(log[k].value, chunks[j])
                                /\ GetProtocolId(log[k].value[1]) = Some(log[k].arg)
                                /\ log[k].to = Boundary(chunks, j)

\* C3 witness: frames with ids 1, 5, 2; block_until_packet_id(2) returned
\* the third.
C3_Witness ==
    /\ Len(inbound[1]) = 3
    /\ AllFrames(inbound[1])
    /\ <<FrameId(inbound[1][1]), FrameId(inbound[1][2]), FrameId(inbound[1][3])>>
           = <<1, 5, 2>>
    /\ Len(log) = 1
    /\ log[1].op = "block_until_packet_id"
    /\ log[1].arg = 2
    /\ log[1].status = "Ok"
    /\ IsFrame(log[1].value, inbound[1][3])

\* the stream holds only frames, over-long length prefixes and frames of
\* declared length 0
FramesAndDroppable(chunks) ==
    \A i \in 1 .. Len(chunks) : chunks[i].kind \in {"frame", "overlong", "empty"}

\* C4 as claimed: an over-long length prefix or a frame of declared length 0
\* before the matching frame does not make block_until_packet_id return an
\* error; only a stream I/O failure ends it with an error.
C4_Original ==
    \A k \in CallsOf("block_until_packet_id") :
        (FramesAndDroppable(inbound[log[k].stream]) /\ log[k].status = "Err")
            => log[k].err = "io"

\* C4 as amended: block_until_packet_id drops non-matching frames and
\* over-long length prefixes; the first frame of declared length 0 it meets
\* before a matching frame ends it with the framing error of
\* read_protocol_id; otherwise it returns the first matching frame, or an
\* I/O error when the stream ends.  On any stream, a framing error is
\* returned only right after a length prefix that decodes to 0.
C4_DropsOnlyOverlong ==
    \A k \in CallsOf("block_until_packet_id") :
        LET chunks == inbound[log[k].stream]
            Decides(c) ==
                \/ c.kind = "empty"
                \/ c.kind = "frame" /\ FrameId(c) = log[k].arg
        IN  /\ (log[k].status = "Err" /\ log[k].err = "framing") =>
                  /\ log[k].to > log[k].from
                  /\ StreamBytes(chunks)[log[k].to] = 0
            /\ FramesAndDroppable(chunks) =>
                  \E j0 \in 0 .. Len(chunks) :
                      /\ log[k].from = Boundary(chunks, j0)
                      /\ LET j == FirstAfter(chunks, j0, Decides)
                         IN  IF j = 0
                             THEN log[k].status = "Err" /\ log[k].err = "io"
                             ELSE /\ log[k].to = Boundary(chunks, j)
                                  /\ IF chunks[j].kind = "frame"
                                     THEN /\ log[k].status = "Ok"
                                          /\ IsFrame(log[k].value, chunks[j])
                                     ELSE /\ log[k].status = "Err"
                                          /\ log[k].err = "framing"

\* C4 witness: an over-long prefix, a frame of length 0 and a frame with id
\* 2; block_until_packet_id(2) dropped the first and failed on the second.
C4_Witness ==
    /\ Len(inbound[1]) = 3
    /\ <<inbound[1][1].kind, inbound[1][2].kind, inbound[1][3].kind>>
           = <<"overlong", "empty", "frame">>
    /\ FrameId(inbound[1][3]) = 2
    /\ Len(log) = 1
    /\ log[1].op = "block_until_packet_id"
    /\ log[1].arg = 2
    /\ log[1].status = "Err"
    /\ log[1].err = "framing"
    /\ log[1].to = 7

\* the bytes of the stream a call found unread
Ahead(l) ==
    LET bytes == StreamBytes(inbound[l.stream])
    IN  Slice(bytes, l.from, Len(bytes))

\* C7: read_packet returns "no packet" (Ok(None)) exactly when the first
\* five bytes it reads all have the continuation bit set (and the stream
\* delivers a sixth byte); then it has read six bytes and no payload.  A
\* prefix that terminates within five bytes is never "no packet".
C7_NoPacketIffOverlong ==
    \A k \in CallsOf("read_packet") :
        LET none == log[k].status = "Ok" /\ log[k].value = None
        IN  /\ none <=> (ContinuationRun(Ahead(log[k]), 5) /\ Len(Ahead(log[k])) >= 6)
            /\ none => log[k].to = log[k].from + 6
            /\ (\E i \in 1 .. 5 : /\ i <= Len(Ahead(log[k]))
                                  /\ ContinueBitClear(Ahead(log[k])[i])
                                  /\ ContinuationRun(Ahead(log[k]), i - 1))
                   => ~none

\* C7 witness: read_packet returned "no packet" after six bytes with more of
\* the stream still unread.
C7_Witness ==
    /\ Len(log) = 1
    /\ log[1].op = "read_packet"
    /\ log[1].status = "Ok"
    /\ log[1].value = None
    /\ log[1].to = 6
    /\ Len(StreamBytes(inbound[1])) > 6


-----------------------------------------------------------------------------
(* Claims about outbound framing (checked under SpecSend) *)

\* the frame of a payload: varint(len) followed by the payload
Frame(payload) == RefVarint(Len(payload)) \o payload

\* C2: every successful send_packet(p) appends to the outbound stream exactly
\* varint(len(p.buffer)) followed by p.buffer and leaves nothing unflushed.
C2_SendsWholeFrames ==
    \A k \in CallsOf("send_packet") :
        log[k].status = "Ok" =>
            /\ SubSeq(wire[log[k].stream], log[k].from + 1, log[k].to)
                   = Frame(Built(log[k].arg).buffer)
            /\ k = Len(log) => wbuf = << >>


-----------------------------------------------------------------------------
(* Claims about the handshake session, checked under Spec *)

\* the frames of the protocol, byte by byte: the handshake for
\* localhost:25565 with protocol version 759 and the given next state, the
\* login start for "extremq", the status request
RefHandshake(next_state) ==
    Frame(<<0, 247, 5, 9>> \o Localhost \o <<99, 221, next_state>>)
RefLoginStart == Frame(<<0, 7>> \o Extremq \o <<0>>)
RefStatusRequest == Frame(<<0>>)
IsHandshakeFrame(frame) == \E n \in {1, 2} : frame = RefHandshake(n)

\* the frames found on an outbound stream whose frames are shorter than 128
\* bytes; a cut last frame is returned as it is
RECURSIVE FramesOn(_)
FramesOn(bytes) ==
    IF bytes = << >> THEN << >>
    ELSE LET n == 1 + bytes[1]
         IN  IF n >= Len(bytes) THEN <<bytes>>
             ELSE <<SubSeq(bytes, 1, n)>> \o FramesOn(SubSeq(bytes, n + 1, Len(bytes)))

\* `bytes` is a prefix of `whole`
IsPrefix(bytes, whole) ==
    Len(bytes) <= Len(whole) /\ bytes = SubSeq(whole, 1, Len(bytes))

\* what a stream may carry: a handshake frame and the request frame that
\* goes with it, or the part of them written before the connection was reset
OneSession(bytes) ==
    \/ IsPrefix(bytes, RefHandshake(1) \o RefStatusRequest)
    \/ IsPrefix(bytes, RefHandshake(2) \o RefLoginStart)

\* C5: whatever status() and login() calls were made, a handshake is only
\* ever attempted on a stream that serves both halves and from which nothing
\* was read; if a handshake had been sent before, the stream is a new one on
\* which nothing was written; if none had, the stream carries at most the
\* beginning of a handshake frame whose send failed, and the connection is
\* reset.  So every stream carries at most one handshake frame, and that
\* frame is the first one on it.
C5_OneHandshakePerStream ==
    /\ pc = "handshake" =>
          /\ reader = writer
          /\ rpos[reader] = 0
          /\ handshake_performed => wire[writer] = << >> /\ ~broken[writer]
          /\ wire[writer] # << >> =>
                /\ broken[writer]
                /\ \E n \in {1, 2} :
                      /\ IsPrefix(wire[writer], RefHandshake(n))
                      /\ wire[writer] # RefHandshake(n)
    /\ \A s \in 1 .. dials :
          LET frames == FramesOn(wire[s])
          IN  /\ OneSession(wire[s])
              /\ \A i \in 1 .. Len(frames) : IsHandshakeFrame(frames[i]) => i = 1

\* a call failed in try_clone on stream 2 after a handshake on stream 1, and
\* the next call redialed and wrote its handshake first on stream 3
C5_Witness ==
    /\ dials = 3
    /\ reader = 3 /\ writer = 3
    /\ \E k \in 1 .. Len(log) : log[k].err = "clone"
    /\ wire[2] = << >>
    /\ wire[1] # << >> /\ wire[3] # << >>
    /\ IsHandshakeFrame(FramesOn(wire[1])[1])
    /\ IsHandshakeFrame(FramesOn(wire[3])[1])

\* C6: a login() that returns Ok wrote exactly the handshake frame with next
\* state 2 and then the login-start frame on its stream and waited for a
\* frame with id 0x02; a status() that returns Ok wrote the handshake frame
\* with next state 1 and then the status-request frame and waited for a
\* frame with id 0x00; bytes are read from a stream only when both frames
\* are flushed onto it.
C6_StepOrdering ==
    /\ \A k \in CallsOf("login") :
          log[k].status = "Ok" =>
             /\ wire[log[k].stream] = RefHandshake(2) \o RefLoginStart
             /\ log[k].response # None
             /\ GetProtocolId(log[k].response[1]) = Some(2)
    /\ \A k \in CallsOf("status") :
          log[k].status = "Ok" =>
             /\ wire[log[k].stream] = RefHandshake(1) \o RefStatusRequest
             /\ log[k].response # None
             /\ GetProtocolId(log[k].response[1]) = Some(0)
    /\ \A s \in 1 .. dials :
          rpos[s] > 0 =>
             \/ wire[s] = RefHandshake(2) \o RefLoginStart
             \/ wire[s] = RefHandshake(1) \o RefStatusRequest
    /\ pc \in {"wait", "decode"} => wbuf = << >> /\ reader = writer

\* a status() and then a login() returned Ok, the login() after skipping a
\* set-compression frame
C6_Witness ==
    /\ Len(log) >= 2
    /\ log[1].op = "status" /\ log[1].status = "Ok"
    /\ log[2].op = "login" /\ log[2].status = "Ok"
    /\ inbound[log[2].stream] = <<SetCompression, LoginSuccess>>
    /\ rpos[log[2].stream] = Len(StreamBytes(inbound[log[2].stream]))

-----------------------------------------------------------------------------
(* Claims about the error paths of the codec (checked under SpecCodec) *)

\* the latest call is `op`, and the varint at its cursor decodes
PrefixDecodes(op) == last.op = op /\ ReadVarint(last.before).status = "Ok"

\* C11: whenever the length prefix read_string decodes is negative or larger
\* than the number of bytes left after the prefix, read_string returns an
\* error value and the cursor stays within the buffer.
C11_ReadStringOverrunIsError ==
    PrefixDecodes("read_string") =>
        LET prefix == ReadVarint(last.before)
            left == Len(prefix.packet.buffer) - prefix.packet.cursor
        IN  (prefix.value < 0 \/ prefix.value > left) =>
                /\ last.status = "Err"
                /\ pkt.cursor <= Len(pkt.buffer)

\* C12: read_slice(n) succeeds exactly when cursor + n <= buffer length; it
\* then returns buffer[cursor .. cursor+n] and advances the cursor by n;
\* otherwise it returns an error and leaves the cursor where it was.
C12_ReadSliceExact ==
    last.op = "read_slice" =>
        LET b == last.before
            n == last.arg
        IN  IF b.cursor + n <= Len(b.buffer)
            THEN /\ last.status = "Ok"
                 /\ last.value = Slice(b.buffer, b.cursor, b.cursor + n)
                 /\ pkt.cursor = b.cursor + n
            ELSE /\ last.status = "Err"
                 /\ pkt.cursor = b.cursor

-----------------------------------------------------------------------------
(* Claims about the handshake payload (checked under Spec) *)

\* varint(0x00) || varint(759) || string(host) || port, big-endian ||
\* varint(next_state), spelled with the reference encoding
RefHandshakePayload(host, p, next_state) ==
    RefVarint(0) \o RefVarint(759) \o RefVarint(Len(host)) \o host
        \o <<p \div 256, p % 256>> \o RefVarint(next_state)

\* 00 F7 05 09 6C 6F 63 61 6C 68 6F 73 74 63 DD 01
LocalhostStatusHandshake ==
    <<0, 247, 5, 9, 108, 111, 99, 97, 108, 104, 111, 115, 116, 99, 221, 1>>

\* C13: when status() or login() has sent its handshake, the payload on the
\* stream is varint(0x00) || varint(759) || string(hostname) || port as two
\* big-endian bytes || varint(next_state), next_state 1 for status() and 2
\* for login(); for "localhost", 25565 and status() it is the bytes
\* 00 F7 05 09 6C 6F 63 61 6C 68 6F 73 74 63 DD 01.
C13_HandshakePayload ==
    pc = "request" =>
        LET sent == wire[writer]
            payload == SubSeq(sent, 2, Len(sent))
        IN  /\ sent # << >>
            /\ sent[1] = Len(payload)
            /\ call.fn = "status" => payload = RefHandshakePayload(hostname, port, 1)
            /\ call.fn = "login" => payload = RefHandshakePayload(hostname, port, 2)
            /\ (call.fn = "status" /\ hostname = Localhost /\ port = 25565)
                  => payload = LocalhostStatusHandshake

\* C13 witness: status() has sent its handshake for localhost:25565, and
\* before it a login() had sent one on another stream
C13_Witness ==
    /\ pc = "request"
    /\ call.fn = "status"
    /\ hostname = Localhost /\ port = 25565
    /\ writer = 2
    /\ wire[2] = <<16>> \o LocalhostStatusHandshake
    /\ wire[1] # << >>
    /\ SubSeq(wire[1], 2, 17) = RefHandshakePayload(Localhost, 25565, 2)

-----------------------------------------------------------------------------
(* Claims about the varint encoder (checked under SpecCodec) *)

\* the 7-bit group i (0 the least significant) of the 32-bit pattern of v;
\* group 4 holds the four bits 28..31
Group(v, i) == IF i < 4 THEN (v \div (128 ^ i)) % 128 ELSE (v \div Pow2_28) % 16

\* the number of groups up to the most significant one that is not zero,
\* 1 for v = 0; a negative v has bit 31 set
GroupCount(v) ==
    IF v < 0 THEN 5
    ELSE IF v < 128 THEN 1
    ELSE IF v < 128 ^ 2 THEN 2
    ELSE IF v < 128 ^ 3 THEN 3
    ELSE IF v < Pow2_28 THEN 4
    ELSE 5

\* C14: write_varint(v) on an empty Packet leaves the little-endian base-128
\* encoding of v: byte i carries group i of v, every byte but the last has
\* bit 0x80 set and the last has it clear, and there are exactly as many
\* bytes as v has groups (no trailing zero group); 0 is the byte 0x00 and
\* 300 the bytes AC 02.
C14_VarintReferenceEncoding ==
    WroteOnly("write_varint") =>
        LET v == hist[1].arg
            n == Len(pkt.buffer)
        IN  /\ n = GroupCount(v)
            /\ \A i \in 1 .. n :
                  /\ pkt.buffer[i] % 128 = Group(v, i - 1)
                  /\ pkt.buffer[i] >= 128 <=> i < n
            /\ n > 1 => pkt.buffer[n] # 0
            /\ v = 0 => pkt.buffer = <<0>>
            /\ v = 300 => pkt.buffer = <<172, 2>>

\* C14 witness: 300 was written as AC 02
C14_Witness ==
    /\ WroteOnly("write_varint")
    /\ hist[1].arg = 300
    /\ hist[1].status = "Ok"
    /\ pkt.buffer = <<172, 2>>

-----------------------------------------------------------------------------
(* Claims about the protocol id of a received frame (checked under SpecRead) *)

\* the varint a payload starts with: its value and the bytes it takes
LeadingVarint(payload) == ReadVarint(PacketFromBytes(payload))

\* C15: for every well-formed frame whose payload starts with varint(id),
\* id in 0..255, the Packet read_packet returns has get_protocol_id() = id
\* and its cursor just after the length prefix and the bytes of varint(id).
C15_IdIsLeadingVarint ==
    \A s \in 1 .. dials :
        AllFrames(inbound[s]) =>
            \A k \in CallsOf("read_packet") :
                (log[k].stream = s /\ log[k].status = "Ok" /\ log[k].value # None) =>
                    \A j \in 1 .. Len(inbound[s]) :
                        log[k].from = Boundary(inbound[s], j - 1) =>
                            LET c == inbound[s][j]
                                lead == LeadingVarint(c.payload)
                                packet == log[k].value[1]
                            IN  (lead.status = "Ok" /\ lead.value \in 0 .. 255) =>
                                    /\ GetProtocolId(packet) = Some(lead.value)
                                    /\ packet.cursor = Len(c.prefix) + lead.packet.cursor

-----------------------------------------------------------------------------
(* Claims about the handshake flag (checked under Spec) *)

\* C16: handshake_performed is false after construction; it never goes from
\* true to false; it goes from false to true only in the step of status()
\* or login() that has just sent the handshake frame successfully; and
\* invalidate_handshake leaves it as it found it.
C16_FlagOnlyRises ==
    /\ handshake_performed = FALSE
    /\ [][/\ handshake_performed => handshake_performed'
          /\ (~handshake_performed /\ handshake_performed') =>
                /\ pc = "handshake" /\ pc' = "request"
                /\ wire'[writer] = RefHandshake(IF call.fn = "login" THEN 2 ELSE 1)
                /\ wbuf' = << >>
          /\ pc = "invalidate" => handshake_performed' = handshake_performed]_vars

\* C16 witness: after a handshake on stream 1 a call redialed, and the flag
\* is still true when its own handshake is about to be sent on stream 2
C16_Witness ==
    /\ handshake_performed
    /\ pc = "handshake"
    /\ writer = 2 /\ reader = 2
    /\ wire[1] # << >>
    /\ wire[2] = << >>

-----------------------------------------------------------------------------
(* Claims about the protocol id of a Packet (checked under Spec) *)

\* the Packets status() and login() build and send
OutboundPackets ==
    {HandshakePacket(hostname, port, n) : n \in {1, 2}}
        \cup {LoginStartPacket, StatusRequestPacket}

\* the id read_packet gave a received Packet: the byte after the length
\* prefix (one byte long in every frame of ServerScripts)
IdAfterPrefix(packet) == Some(packet.buffer[2])

\* C17: a Packet has no protocol id when it is constructed, the Packets that
\* status() and login() send never have one, and a received Packet gets its
\* id once, in read_packet, right after the length prefix and before any
\* field is decoded: when decoding starts the cursor is just behind the id
\* byte, and whatever the decoding does the id is the same afterwards.
C17_ProtocolIdSetOnce ==
    /\ GetProtocolId(PacketNew) = None
    /\ GetProtocolId(PacketFromBytes(<<2, 7>>)) = None
    /\ GetProtocolId(PacketWithSize(2)) = None
    /\ \A p \in OutboundPackets : GetProtocolId(p) = None
    /\ pc = "decode" =>
          /\ call.response # None
          /\ GetProtocolId(call.response[1]) = IdAfterPrefix(call.response[1])
          /\ call.response[1].cursor = 2
    /\ \A k \in 1 .. Len(log) :
          log[k].response # None =>
             /\ GetProtocolId(log[k].response[1]) = IdAfterPrefix(log[k].response[1])
             /\ log[k].response[1].cursor >= 2

\* C17 witness: login() decoded the uuid and the username of a login-success
\* frame to its end, and the Packet still carries the id 0x02
C17_Witness ==
    /\ Len(log) >= 1
    /\ log[1].op = "login"
    /\ log[1].status = "Ok"
    /\ log[1].response # None
    /\ log[1].response[1].cursor = Len(log[1].response[1].buffer)
    /\ log[1].response[1].cursor = 26
    /\ GetProtocolId(log[1].response[1]) = Some(2)

-----------------------------------------------------------------------------
(* Claims about a failed invalidate_handshake (checked under Spec) *)

\* C18: the read half and the write half of the Client are always on the
\* same stream, and a call that ends in invalidate_handshake with an error
\* (the dial or either try_clone failed) leaves both halves and the flag as
\* they were.
C18_InvalidateAllOrNothing ==
    /\ [](reader = writer)
    /\ [][(pc = "invalidate" /\ pc' = "idle") =>
             /\ reader' = reader
             /\ writer' = writer
             /\ handshake_performed' = handshake_performed]_vars

-----------------------------------------------------------------------------
(* Claims about a negative frame length (checked under SpecRead) *)

\* the length prefix that starts at position `from` of the stream s ends
\* within five bytes and decodes to a negative i32
NegativePrefixAt(s, from) ==
    LET pre == ReadLengthPrefix(StreamBytes(inbound[s]), from, << >>)
    IN  /\ pre.kind = "break"
        /\ ReadVarint(PacketFromBytes(pre.buffer)).status = "Ok"
        /\ ReadVarint(PacketFromBytes(pre.buffer)).value < 0

\* C19: a read_packet call that meets a length prefix decoding to a negative
\* i32 returns an error or "no packet": it does not panic and reads nothing
\* beyond the five bytes of the prefix.
C19_NegativeLengthRefused ==
    \A k \in CallsOf("read_packet") :
        NegativePrefixAt(log[k].stream, log[k].from) =>
            /\ log[k].status # "Panic"
            /\ log[k].status = "Ok" => log[k].value = None
            /\ log[k].to = log[k].from + 5

-----------------------------------------------------------------------------
(* Claims about write_varint on the whole i32 range (checked under SpecCodec) *)

\* C20: write_varint returns Ok for every i32, negative ones included, and
\* appends 1 to 5 bytes, exactly 5 for a negative value; a following
\* read_varint from cursor 0 returns the value again and consumes all bytes.
C20_WriteVarintTotal ==
    /\ \A k \in 1 .. Len(hist) : hist[k].status = "Ok"
    /\ WroteOnly("write_varint") =>
          LET v == hist[1].arg
          IN  /\ v \in I32_MIN .. I32_MAX
              /\ Len(pkt.buffer) \in 1 .. 5
              /\ v < 0 => Len(pkt.buffer) = 5
              /\ ReadFromStart("read_varint") =>
                    /\ last.status = "Ok"
                    /\ last.value = v
                    /\ pkt.cursor = Len(pkt.buffer)

\* C20 witness: -2^31 was written in five bytes and read back
C20_Witness ==
    /\ WroteOnly("write_varint")
    /\ hist[1].arg = I32_MIN
    /\ Len(pkt.buffer) = 5
    /\ ReadFromStart("read_varint")
    /\ last.value = I32_MIN

=============================================================================
